---- MODULE Spec2Model ----
(***************************************************************************)
(* Model of src/ibmarketdata.py: the request-correlation engine of IbApp   *)
(* (request-id allocation, the pending tables and lookup tables, the reply *)
(* handlers, verify), the message loop of InterruptableClient.runnable as  *)
(* far as a reply handler can end it, and the Utils.reliable retry wrapper. *)
(***************************************************************************)
EXTENDS Integers, Sequences, FiniteSets, TLC

VARIABLES
    subRealMD,               \* IbApp.__subRealMD  (--real)
    subHistMD,               \* IbApp.__subHistMD  (--hist)
    securities,              \* the items the Securities table holds
    nextValidOrderId,        \* IbApp.nextValidOrderId
    nextValidReqId,          \* IbApp.nextValidReqId
    requestedContracts,      \* dict reqId -> Contract, in insertion order
    requestedMarketData,     \* dict reqId -> Contract
    requestedHistoricalData, \* dict reqId -> Contract
    marketDataLookup,        \* dict reqId -> localSymbol
    historicalLookup,        \* dict reqId -> localSymbol
    sent,                    \* requests written to the gateway by the latest pass
    allocated,               \* values nextReqId returned during the latest pass
    quotes,                  \* UpdateQuote calls made by the latest pass
    highWater,               \* largest value nextReqId returned before that pass
    allocCount,              \* how many values nextReqId has returned so far
    elapsed,                 \* datetime.utcnow() - self.lastStamp, in seconds
    connected,               \* self.conn.isConnected()
    running,                 \* control is inside the while loop of runnable
    raised,                  \* the exception that left runnable, "" if none
    msg_queue,               \* self.msg_queue: the frames read and not yet taken
    disconnectCalls,         \* calls of self.disconnect() made by runnable
    connCloses,              \* calls of self.conn.disconnect() made by runnable
    errors,                  \* wrapper.error reports of the latest pass
    sinceFrame,              \* seconds since msg_queue.get last returned a frame
    createdFrom,             \* per request contractDetails created: its kind and
                             \* the contract-lookup id of the reply that caused it
    rStub,                   \* the operation wrapped by Utils.reliable
    rOut                     \* what the wrapper returned, and how it got there

cfgVars  == <<subRealMD, subHistMD, securities>>
idVars   == <<nextValidOrderId, nextValidReqId>>
tblVars  == <<requestedContracts, requestedMarketData, requestedHistoricalData,
              marketDataLookup, historicalLookup>>
outVars  == <<sent, allocated, quotes>>
histVars == <<highWater, allocCount>>
timeVars == <<elapsed>>
loopVars == <<connected, running>>
relVars  == <<rStub, rOut>>
exitVars == <<disconnectCalls, connCloses, errors>>
pastVars == <<sinceFrame, createdFrom>>
vars     == <<cfgVars, idVars, tblVars, outVars, histVars, timeVars, loopVars, raised,
              relVars, msg_queue, exitVars, pastVars>>

(***************************************************************************)
(* Bounds of the model.                                                    *)
(***************************************************************************)
MaxSecurities == 2   \* items in the Securities table
MaxAlloc == 3        \* request ids handed out in one run
MaxElapsed == 31     \* seconds without a probe that are followed
TickStep == 31       \* seconds between two readings of the clock
MaxAbsent == 12      \* longest run of absent results of a wrapped operation
MaxQueue == 2        \* frames waiting in msg_queue

(***************************************************************************)
(* Program constants.                                                      *)
(***************************************************************************)
MaxTries == 10           \* while ... tries < 10
BackoffBase == 2         \* time.sleep(2 ** tries)
ProbeSeconds == 30       \* datetime.timedelta(seconds=30)
NoId == -1               \* nextValidReqId = None before nextValidId
MAX_MSG_LEN == 16777215  \* ibapi.common.MAX_MSG_LEN

(***************************************************************************)
(* Python dicts keep insertion order; verify iterates them in that order.  *)
(* A dict is a sequence of entries [k, v] with distinct keys.              *)
(***************************************************************************)
EmptyDict == <<>>
Keys(d) == {d[i].k : i \in 1..Len(d)}
Has(d, key) == key \in Keys(d)
Get(d, key) == d[CHOOSE i \in 1..Len(d) : d[i].k = key].v
Put(d, key, val) ==
    IF Has(d, key)
    THEN [i \in 1..Len(d) |-> IF d[i].k = key THEN [k |-> key, v |-> val] ELSE d[i]]
    ELSE Append(d, [k |-> key, v |-> val])
Del(d, key) == SelectSeq(d, LAMBDA e : e.k # key)

(***************************************************************************)
(* Utils.reliable.  A wrapped operation is described by what its           *)
(* successive calls return: absent on the first stub.absent calls (on      *)
(* every call when stub.never), stub.value from then on.                   *)
(***************************************************************************)
None == [some |-> FALSE, val |-> <<>>]
Some(v) == [some |-> TRUE, val |-> v]
IsNone(r) == ~r.some

Call(stub, n) == IF stub.never \/ n <= stub.absent THEN None ELSE Some(stub.value)

\* a slip: 2 * tries for 2 ** tries
PowLinear(b, e) == b * e

RECURSIVE Pow(_, _)
Pow(b, e) == IF e = 0 THEN 1 ELSE b * Pow(b, e - 1)

\* a slip: tries <= 10 for tries < 10
RECURSIVE RetryLoopInclusive(_, _)
RetryLoopInclusive(stub, st) ==
    IF IsNone(st.result) /\ st.tries <= MaxTries
    THEN LET tries == st.tries + 1
         IN  RetryLoopInclusive(stub,
                 [tries  |-> tries,
                  sleeps |-> Append(st.sleeps, Pow(BackoffBase, tries)),
                  calls  |-> st.calls + 1,
                  result |-> Call(stub, st.calls + 1)])
    ELSE st

\* the while loop of _decorator: st = [tries, result, calls, sleeps]
RECURSIVE RetryLoop(_, _)
RetryLoop(stub, st) ==
    IF IsNone(st.result) /\ st.tries < MaxTries
    THEN LET tries == st.tries + 1
         IN  RetryLoop(stub, [tries  |-> tries,
                              sleeps |-> Append(st.sleeps, Pow(BackoffBase, tries)),
                              calls  |-> st.calls + 1,
                              result |-> Call(stub, st.calls + 1)])
    ELSE st

reliable(stub) ==
    LET first == [tries |-> 0, sleeps |-> <<>>, calls |-> 1, result |-> Call(stub, 1)]
    IN  IF IsNone(first.result) THEN RetryLoop(stub, first) ELSE first

(***************************************************************************)
(* The record store and the gateway's replies: the inputs of the model.    *)
(***************************************************************************)
Security(sym, type, exch, enabled) ==
    [Symbol |-> sym, ProductType |-> type, Exchange |-> exch,
     SubscriptionEnabled |-> enabled]

Catalog ==
    << Security("ABC", "STK", "NASDAQ", TRUE),
       Security("ES", "FUT", "GLOBEX", TRUE),
       Security("XYZ", "STK", "NYSE", FALSE) >>

\* the items of Catalog at the positions in I, in the order of the scan
Scan(I) ==
    LET F[n \in 0..Len(Catalog)] ==
            IF n = 0 THEN <<>>
            ELSE IF n \in I THEN Append(F[n - 1], Catalog[n]) ELSE F[n - 1]
    IN  F[Len(Catalog)]

\* the Securities table is keyed by Symbol: no symbol twice
Stores ==
    {Scan(I) : I \in {J \in SUBSET (1..Len(Catalog)) : Cardinality(J) <= MaxSecurities}}

\* ibapi Contract(): every field starts empty
Contract(sym, type, exch, tclass, month, lsym) ==
    [symbol |-> sym, secType |-> type, exchange |-> exch, tradingClass |-> tclass,
     lastTradeDateOrContractMonth |-> month, localSymbol |-> lsym]
NewContract == Contract("", "", "", "", "", "")

Details(summary, market) == [summary |-> summary, marketName |-> market]

Replies ==
    { Details(Contract("ABC", "STK", "NASDAQ", "NMS", "", "ABC"), "NMS"),
      Details(Contract("ABCD", "STK", "NASDAQ", "NMS", "", "ABCD1"), "ABC"),
      Details(Contract("ES", "FUT", "GLOBEX", "ES", "202612", "ESZ6"), "ES"),
      Details(Contract("ES", "FUT", "GLOBEX", "EW", "202612", "EWZ6"), "EW"),
      Details(Contract("QQQ", "STK", "NYSE", "QQQ", "", "QQQ"), "QQQ") }

Bar(date, open, high, low, close, volume, barCount) ==
    [date |-> date, open |-> open, high |-> high, low |-> low, close |-> close,
     volume |-> volume, barCount |-> barCount]

Bars == { Bar("20261102", 10, 12, 9, 11, 100, 5),
          Bar("20261103", 11, 14, 8, 13, 200, 7) }

\* the ids the gateway sends in nextValidId, and the ids its replies carry
Seeds == {1, 2}
ReqIds == 0..(2 + MaxAlloc)

\* Securities.scan(): answers at once, after some failures, or never
ScanStubs ==
    {[absent |-> a, never |-> n, value |-> securities] :
        a \in {0, MaxTries, MaxTries + 1}, n \in BOOLEAN}

(***************************************************************************)
(* Requests written to the gateway.                                        *)
(***************************************************************************)
Request(op, reqId, contract) == [op |-> op, reqId |-> reqId, contract |-> contract]
reqCurrentTime == Request("reqCurrentTime", NoId, NewContract)
reqContractDetails(reqId, contract) == Request("reqContractDetails", reqId, contract)
reqMktData(reqId, contract) == Request("reqMktData", reqId, contract)
reqHistoricalData(reqId, contract) == Request("reqHistoricalData", reqId, contract)

\* a slip: the last pending entry is not replayed
ReplayButLast(d, op) == [i \in 1..(Len(d) - 1) |-> Request(op, d[i].k, d[i].v)]

Replay(d, op) == [i \in 1..Len(d) |-> Request(op, d[i].k, d[i].v)]

\* a slip: open and close change places
UpdateQuoteSwapped(symbol, date, opn, close, high, low, volume, barCount) ==
    [symbol |-> symbol, date |-> date, open |-> close, close |-> opn,
     high |-> high, low |-> low, volume |-> volume, barCount |-> barCount]

\* the arguments of one UpdateQuote call
UpdateQuote(symbol, date, opn, close, high, low, volume, barCount) ==
    [symbol |-> symbol, date |-> date, open |-> opn, close |-> close,
     high |-> high, low |-> low, volume |-> volume, barCount |-> barCount]

(***************************************************************************)
(* IbApp.nextReqId: the id handed out and the counter afterwards.          *)
(***************************************************************************)
\* a slip: the counter is incremented before it is read
nextReqIdAfter(counter) == [reqId |-> counter + 1, next |-> counter + 1]

nextReqId(counter) == [reqId |-> counter, next |-> counter + 1]

(***************************************************************************)
(* IbApp.start: the loop over the fetched items.                           *)
(* st = [next, contracts, sent, allocated]                                 *)
(***************************************************************************)
\* a slip: the FUT rule is left out
StartContractPlain(sec) ==
    [NewContract EXCEPT !.symbol = sec.Symbol,
                        !.secType = sec.ProductType,
                        !.exchange = sec.Exchange]

StartContract(sec) ==
    LET c == [NewContract EXCEPT !.symbol = sec.Symbol,
                                 !.secType = sec.ProductType,
                                 !.exchange = sec.Exchange]
    IN  IF c.secType = "FUT" THEN [c EXCEPT !.tradingClass = sec.Symbol] ELSE c

\* a slip: SubscriptionEnabled is not looked at
RECURSIVE StartLoopAll(_, _)
StartLoopAll(items, st) ==
    IF items = <<>> THEN st
    ELSE LET contract == StartContract(Head(items))
             id == nextReqId(st.next)
         IN  StartLoopAll(Tail(items),
               [next      |-> id.next,
                contracts |-> Put(st.contracts, id.reqId, contract),
                sent      |-> Append(st.sent, reqContractDetails(id.reqId, contract)),
                allocated |-> Append(st.allocated, id.reqId)])

RECURSIVE StartLoop(_, _)
StartLoop(items, st) ==
    IF items = <<>> THEN st
    ELSE LET sec == Head(items)
         IN  IF sec.SubscriptionEnabled
             THEN LET contract == StartContract(sec)
                      id == nextReqId(st.next)
                  IN  StartLoop(Tail(items),
                        [next      |-> id.next,
                         contracts |-> Put(st.contracts, id.reqId, contract),
                         sent      |-> Append(st.sent, reqContractDetails(id.reqId, contract)),
                         allocated |-> Append(st.allocated, id.reqId)])
             ELSE StartLoop(Tail(items), st)

(***************************************************************************)
(* The reply handlers.  Each states the new values of idVars, tblVars,     *)
(* outVars and of raised (the exception the handler lets escape).          *)
(***************************************************************************)
\* a slip: an id is drawn before the fetched list is looked at
nextValidIdEarlyDraw(orderId, stub) ==
    LET items == reliable(stub).result
        id == nextReqId(orderId)
        st == StartLoop(items.val,
                        [next |-> id.next, contracts |-> requestedContracts,
                         sent |-> <<>>, allocated |-> <<id.reqId>>])
    IN  /\ nextValidOrderId' = orderId
        /\ IF IsNone(items)
           THEN /\ nextValidReqId' = id.next
                /\ raised' = "TypeError"
                /\ sent' = <<>> /\ allocated' = <<id.reqId>> /\ quotes' = <<>>
                /\ UNCHANGED tblVars
           ELSE /\ allocCount + Len(st.allocated) <= MaxAlloc
                /\ nextValidReqId' = st.next
                /\ requestedContracts' = st.contracts
                /\ sent' = st.sent
                /\ allocated' = st.allocated
                /\ quotes' = <<>>
                /\ raised' = ""
                /\ UNCHANGED <<requestedMarketData, requestedHistoricalData,
                               marketDataLookup, historicalLookup>>

nextValidId(orderId, stub) ==
    LET items == reliable(stub).result
        st == StartLoop(items.val,
                        [next |-> orderId, contracts |-> requestedContracts,
                         sent |-> <<>>, allocated |-> <<>>])
    IN  /\ nextValidOrderId' = orderId
        /\ IF IsNone(items)
           THEN \* for sec in None
                /\ nextValidReqId' = orderId
                /\ raised' = "TypeError"
                /\ sent' = <<>> /\ allocated' = <<>> /\ quotes' = <<>>
                /\ UNCHANGED tblVars
           ELSE /\ allocCount + Len(st.allocated) <= MaxAlloc
                /\ nextValidReqId' = st.next
                /\ requestedContracts' = st.contracts
                /\ sent' = st.sent
                /\ allocated' = st.allocated
                /\ quotes' = <<>>
                /\ raised' = ""
                /\ UNCHANGED <<requestedMarketData, requestedHistoricalData,
                               marketDataLookup, historicalLookup>>

\* a slip: localSymbol is filled from the symbol
ValidatedBySymbol(cd) ==
    [NewContract EXCEPT !.symbol = cd.summary.symbol,
                        !.secType = cd.summary.secType,
                        !.exchange = cd.summary.exchange,
                        !.tradingClass = cd.summary.tradingClass,
                        !.lastTradeDateOrContractMonth =
                            cd.summary.lastTradeDateOrContractMonth,
                        !.localSymbol = cd.summary.symbol]

Validated(cd) ==
    [NewContract EXCEPT !.symbol = cd.summary.symbol,
                        !.secType = cd.summary.secType,
                        !.exchange = cd.summary.exchange,
                        !.tradingClass = cd.summary.tradingClass,
                        !.lastTradeDateOrContractMonth =
                            cd.summary.lastTradeDateOrContractMonth,
                        !.localSymbol = cd.summary.localSymbol]

Matches(contract, cd) ==
    contract.symbol = cd.summary.symbol \/ contract.symbol = cd.marketName

\* lines 266-284: the reply matches the request
Subscribe(reqId, cd) ==
    LET contract == Get(requestedContracts, reqId)
        validated == Validated(cd)
        c == nextReqId(nextValidReqId)
        afterReal == IF subRealMD THEN c.next ELSE nextValidReqId
        h == nextReqId(afterReal)
        afterHist == IF subHistMD THEN h.next ELSE afterReal
    IN  /\ nextValidReqId' = afterHist
        /\ allocCount + (afterHist - nextValidReqId) <= MaxAlloc
        /\ allocated' = (IF subRealMD THEN <<c.reqId>> ELSE <<>>)
                            \o (IF subHistMD THEN <<h.reqId>> ELSE <<>>)
        /\ marketDataLookup' =
              IF subRealMD THEN Put(marketDataLookup, c.reqId, validated.localSymbol)
                           ELSE marketDataLookup
        /\ requestedMarketData' =
              IF subRealMD THEN Put(requestedMarketData, c.reqId, validated)
                           ELSE requestedMarketData
        /\ historicalLookup' =
              IF subHistMD THEN Put(historicalLookup, h.reqId, validated.localSymbol)
                           ELSE historicalLookup
        /\ requestedHistoricalData' =
              IF subHistMD THEN Put(requestedHistoricalData, h.reqId, validated)
                           ELSE requestedHistoricalData
        /\ sent' = (IF subRealMD THEN <<reqMktData(c.reqId, contract)>> ELSE <<>>)
                       \o (IF subHistMD THEN <<reqHistoricalData(h.reqId, validated)>>
                                        ELSE <<>>)
        /\ quotes' = <<>>
        /\ raised' = ""
        /\ UNCHANGED <<nextValidOrderId, requestedContracts>>

NoOutput == sent' = <<>> /\ allocated' = <<>> /\ quotes' = <<>>

Ignore == raised' = "" /\ NoOutput /\ UNCHANGED <<idVars, tblVars>>

Fail(exception) == raised' = exception /\ NoOutput /\ UNCHANGED <<idVars, tblVars>>

\* a slip: the unknown id is checked after the ids are drawn
contractDetailsLateGuard(reqId, cd) ==
    IF ~Has(requestedContracts, reqId)
    THEN /\ nextValidReqId' = nextReqId(nextValidReqId).next
         /\ allocated' = <<nextReqId(nextValidReqId).reqId>>
         /\ sent' = <<>> /\ quotes' = <<>>
         /\ raised' = ""
         /\ UNCHANGED <<nextValidOrderId, tblVars>>
    ELSE IF Matches(Get(requestedContracts, reqId), cd)
         THEN Subscribe(reqId, cd)
         ELSE Ignore

contractDetails(reqId, cd) ==
    IF ~Has(requestedContracts, reqId)
    THEN Ignore
    ELSE IF Matches(Get(requestedContracts, reqId), cd)
         THEN Subscribe(reqId, cd)
         ELSE Ignore

contractDetailsEnd(reqId) ==
    /\ requestedContracts' = Del(requestedContracts, reqId)
    /\ raised' = ""
    /\ NoOutput
    /\ UNCHANGED <<idVars, requestedMarketData, requestedHistoricalData,
                   marketDataLookup, historicalLookup>>

historicalData(reqId, bar) ==
    IF ~Has(historicalLookup, reqId)
    THEN Fail("KeyError")
    ELSE LET sym == Get(historicalLookup, reqId)
         IN  /\ requestedHistoricalData' = Del(requestedHistoricalData, reqId)
             /\ quotes' = <<UpdateQuote(sym, bar.date, bar.open, bar.close, bar.high,
                                        bar.low, bar.volume, bar.barCount)>>
             /\ sent' = <<>> /\ allocated' = <<>>
             /\ raised' = ""
             /\ UNCHANGED <<idVars, requestedContracts, requestedMarketData,
                            marketDataLookup, historicalLookup>>

\* a slip: the pending entry is kept
tickPriceKeep(tickerId) ==
    IF ~Has(marketDataLookup, tickerId) THEN Fail("KeyError") ELSE Ignore

tickPrice(tickerId) ==
    IF ~Has(marketDataLookup, tickerId)
    THEN Fail("KeyError")
    ELSE /\ requestedMarketData' = Del(requestedMarketData, tickerId)
         /\ raised' = ""
         /\ NoOutput
         /\ UNCHANGED <<idVars, requestedContracts, requestedHistoricalData,
                        marketDataLookup, historicalLookup>>

tickSize(tickerId) ==
    IF ~Has(marketDataLookup, tickerId) THEN Fail("KeyError") ELSE Ignore

\* the last message of a historical pull: logged, nothing else
historicalDataEnd(reqId) == Ignore

\* the last message of a market-data snapshot: logged, nothing else
tickSnapshotEnd(reqId) == Ignore

(***************************************************************************)
(* IbApp.verify, the probe the loop calls when the queue stays empty.      *)
(***************************************************************************)
\* a slip: a contract lookup that was replayed is not kept pending
verifyOnce ==
    /\ sent' = <<reqCurrentTime>>
                    \o Replay(requestedContracts, "reqContractDetails")
                    \o (IF subHistMD THEN Replay(requestedHistoricalData, "reqHistoricalData")
                                     ELSE <<>>)
                    \o (IF subRealMD THEN Replay(requestedMarketData, "reqMktData")
                                     ELSE <<>>)
    /\ allocated' = <<>> /\ quotes' = <<>>
    /\ requestedContracts' = EmptyDict
    /\ UNCHANGED <<idVars, requestedMarketData, requestedHistoricalData,
                   marketDataLookup, historicalLookup>>

verify ==
    /\ sent' = <<reqCurrentTime>>
                    \o Replay(requestedContracts, "reqContractDetails")
                    \o (IF subHistMD THEN Replay(requestedHistoricalData, "reqHistoricalData")
                                     ELSE <<>>)
                    \o (IF subRealMD THEN Replay(requestedMarketData, "reqMktData")
                                     ELSE <<>>)
    /\ allocated' = <<>> /\ quotes' = <<>>
    /\ UNCHANGED <<idVars, tblVars>>

(***************************************************************************)
(* InterruptableClient.runnable.  One action is one pass of the while loop *)
(* in which msg_queue.get returned the frame named, or timed out.  An      *)
(* exception other than KeyboardInterrupt, SystemExit and BadMessage       *)
(* leaves the loop through the finally clause, which disconnects.          *)
(***************************************************************************)
InLoop == running /\ connected /\ raised = ""

Max(a, b) == IF a >= b THEN a ELSE b

\* the ids handed out by the pass that now ends join the ids handed out before
Account ==
    /\ highWater' = IF allocated = <<>> THEN highWater
                    ELSE Max(highWater, allocated[Len(allocated)])
    /\ allocCount' = allocCount + Len(allocated')

\* finally: self.disconnect()
Finally ==
    /\ disconnectCalls' = disconnectCalls + 1
    /\ connected' = FALSE
    /\ running' = FALSE

\* decoder.interpret(fields) has run a handler
Interpreted ==
    /\ Account
    /\ IF raised' # "" THEN Finally ELSE UNCHANGED <<loopVars, disconnectCalls>>
    /\ errors' = <<>>
    /\ UNCHANGED <<cfgVars, relVars, connCloses>>

AfterInterpret ==
    /\ Interpreted
    /\ UNCHANGED <<timeVars, msg_queue, pastVars>>

OnNextValidId ==
    /\ InLoop
    /\ \E orderId \in Seeds, stub \in ScanStubs : nextValidId(orderId, stub)
    /\ AfterInterpret

OnContractDetails ==
    /\ InLoop
    /\ \E reqId \in ReqIds, cd \in Replies : contractDetails(reqId, cd)
    /\ AfterInterpret

OnContractDetailsEnd ==
    /\ InLoop
    /\ \E reqId \in ReqIds : contractDetailsEnd(reqId)
    /\ AfterInterpret

OnHistoricalData ==
    /\ InLoop
    /\ \E reqId \in ReqIds, bar \in Bars : historicalData(reqId, bar)
    /\ AfterInterpret

OnTickPrice ==
    /\ InLoop
    /\ \E tickerId \in ReqIds : tickPrice(tickerId)
    /\ AfterInterpret

OnTickSize ==
    /\ InLoop
    /\ \E tickerId \in ReqIds : tickSize(tickerId)
    /\ AfterInterpret

\* the terminal markers of a reply stream, and marketDataType, currentTime
\* and error, which only log
OnLogOnly ==
    /\ InLoop
    /\ \/ \E reqId \in Keys(historicalLookup) : historicalDataEnd(reqId)
       \/ \E reqId \in Keys(marketDataLookup) : tickSnapshotEnd(reqId)
       \/ Ignore
    /\ AfterInterpret

\* queue.Empty
OnEmpty ==
    /\ InLoop
    /\ IF elapsed > ProbeSeconds
       THEN verify /\ elapsed' = 0
       ELSE NoOutput /\ UNCHANGED <<idVars, tblVars, elapsed>>
    /\ Account
    /\ errors' = <<>>
    /\ UNCHANGED <<cfgVars, loopVars, raised, relVars, msg_queue, disconnectCalls,
                   connCloses, pastVars>>

\* the clock read by datetime.utcnow() moves on; the time a handler spends
\* asleep inside Utils.reliable is time that passes right after its action
Tick ==
    /\ elapsed + TickStep <= MaxElapsed
    /\ elapsed' = elapsed + TickStep
    /\ UNCHANGED <<cfgVars, idVars, tblVars, outVars, histVars, loopVars, raised, relVars,
                   msg_queue, exitVars, pastVars>>

(***************************************************************************)
(* The session: IbApp after __init__ and connect, inside loop().           *)
(***************************************************************************)
ReliableIdle ==
    /\ rStub = [absent |-> 0, never |-> FALSE, value |-> ""]
    /\ rOut = [pc |-> "idle"]

SessionStart ==
    /\ nextValidOrderId = NoId
    /\ nextValidReqId = NoId
    /\ requestedContracts = EmptyDict
    /\ requestedMarketData = EmptyDict
    /\ requestedHistoricalData = EmptyDict
    /\ marketDataLookup = EmptyDict
    /\ historicalLookup = EmptyDict
    /\ sent = <<>>
    /\ allocated = <<>>
    /\ quotes = <<>>
    /\ highWater = NoId
    /\ allocCount = 0
    /\ elapsed = 0
    /\ connected = TRUE
    /\ running = TRUE
    /\ raised = ""
    /\ msg_queue = <<>>
    /\ disconnectCalls = 0
    /\ connCloses = 0
    /\ errors = <<>>
    /\ sinceFrame = None
    /\ createdFrom = <<>>

Init ==
    /\ subRealMD \in BOOLEAN
    /\ subHistMD \in BOOLEAN
    /\ securities \in Stores
    /\ SessionStart
    /\ ReliableIdle

Next ==
    \/ OnLogOnly
    \/ OnNextValidId
    \/ OnContractDetails
    \/ OnContractDetailsEnd
    \/ OnHistoricalData
    \/ OnTickPrice
    \/ OnTickSize
    \/ OnEmpty
    \/ Tick

Spec == Init /\ [][Next]_vars

(***************************************************************************)
(* Utils.reliable on its own: a wrapped operation is drawn, the wrapper is *)
(* called once, and what it did is kept in rOut.                           *)
(***************************************************************************)
Values == {"v1", "v2", "v3"}

Stubs ==
    {[absent |-> a, never |-> n, value |-> v] :
        a \in 0..MaxAbsent, n \in BOOLEAN, v \in Values}

InitReliable ==
    /\ subRealMD = FALSE
    /\ subHistMD = FALSE
    /\ securities = <<>>
    /\ SessionStart
    /\ rStub \in Stubs
    /\ rOut = [pc |-> "idle"]

Invoke ==
    /\ rOut.pc = "idle"
    /\ LET r == reliable(rStub)
       IN  rOut' = [pc |-> "returned", result |-> r.result, calls |-> r.calls,
                    sleeps |-> r.sleeps]
    /\ UNCHANGED <<cfgVars, idVars, tblVars, outVars, histVars, timeVars, loopVars,
                   raised, rStub, msg_queue, exitVars, pastVars>>

NextReliable == Invoke

SpecReliable == InitReliable /\ [][NextReliable]_vars

(***************************************************************************)
(* InterruptableClient.runnable with its queue.  The reader thread puts    *)
(* frames into msg_queue while the transport is connected; one action is   *)
(* one pass of the while loop, or the exit through the finally clause.     *)
(***************************************************************************)
Frame(len, kind, reqId) == [len |-> len, kind |-> kind, reqId |-> reqId]

\* the frames the reader thread may put; the last is longer than MAX_MSG_LEN
Frames ==
    { Frame(8, "nextValidId", 1),
      Frame(64, "contractDetails", 1),
      Frame(8, "contractDetailsEnd", 1),
      Frame(16, "tickPrice", 2),
      Frame(MAX_MSG_LEN, "currentTime", NoId),
      Frame(8, "malformed", NoId),
      Frame(MAX_MSG_LEN + 1, "contractDetails", 1) }

\* the contract the gateway describes in a contractDetails frame
LoopReply == Details(Contract("ABC", "STK", "NASDAQ", "NMS", "", "ABC"), "NMS")

\* the Securities table answers the scan at once
LoopScan == [absent |-> 0, never |-> FALSE, value |-> securities]

\* the Securities table never answers the scan
LostScan == [absent |-> 0, never |-> TRUE, value |-> securities]

\* self.done: nothing in the program sets it
done == FALSE

\* the condition of the while loop
LoopCond == ~done /\ (connected \/ msg_queue # <<>>)

InPass == running /\ raised = "" /\ LoopCond

\* a slip: the limit is one too high
TooLongOffByOne(text) == text.len > MAX_MSG_LEN + 1

TooLong(text) == text.len > MAX_MSG_LEN

\* comm.read_fields and decoder.interpret raise BadMessage
Undecodable(text) == text.kind = "malformed"

\* decoder.interpret(fields): the handler the frame is for
Interpret(text) ==
    CASE text.kind = "nextValidId" ->
             \E stub \in {LoopScan, LostScan} : nextValidId(text.reqId, stub)
      [] text.kind = "contractDetails" -> contractDetails(text.reqId, LoopReply)
      [] text.kind = "contractDetailsEnd" -> contractDetailsEnd(text.reqId)
      [] text.kind = "tickPrice" -> tickPrice(text.reqId)
      [] OTHER -> Ignore

\* which contract lookup each request made by contractDetails came from; a
\* lookup id that start hands out again begins anew
Created(text) ==
    IF text.kind = "contractDetails"
    THEN createdFrom \o [i \in 1..Len(sent') |->
                            [op |-> sent'[i].op, from |-> text.reqId]]
    ELSE IF text.kind = "nextValidId"
         THEN SelectSeq(createdFrom,
                        LAMBDA c : \A i \in 1..Len(allocated') : allocated'[i] # c.from)
         ELSE createdFrom

\* the reader thread
Enqueue ==
    /\ running /\ connected
    /\ Len(msg_queue) < MaxQueue
    /\ \E text \in Frames : msg_queue' = Append(msg_queue, text)
    /\ UNCHANGED <<cfgVars, idVars, tblVars, outVars, histVars, timeVars, loopVars,
                   raised, relVars, exitVars, pastVars>>

\* lines 68-72, and the finally clause the break leads to
OnOversized ==
    /\ InPass
    /\ msg_queue # <<>>
    /\ TooLong(Head(msg_queue))
    /\ msg_queue' = Tail(msg_queue)
    /\ errors' = <<[reqId |-> NoId, code |-> "BAD_LENGTH",
                    len |-> Head(msg_queue).len]>>
    /\ disconnectCalls' = disconnectCalls + 2
    /\ connected' = FALSE
    /\ running' = FALSE
    /\ NoOutput
    /\ Account
    /\ sinceFrame' = Some(0)
    /\ UNCHANGED <<cfgVars, idVars, tblVars, timeVars, raised, relVars, connCloses,
                   createdFrom>>

\* lines 86-88
OnBadMessage ==
    /\ InPass
    /\ msg_queue # <<>>
    /\ ~TooLong(Head(msg_queue))
    /\ Undecodable(Head(msg_queue))
    /\ msg_queue' = Tail(msg_queue)
    /\ connCloses' = connCloses + 1
    /\ connected' = FALSE
    /\ errors' = <<>>
    /\ NoOutput
    /\ Account
    /\ sinceFrame' = Some(0)
    /\ UNCHANGED <<cfgVars, idVars, tblVars, timeVars, running, raised, relVars,
                   disconnectCalls, createdFrom>>

\* lines 78-81
OnFrame ==
    /\ InPass
    /\ msg_queue # <<>>
    /\ ~TooLong(Head(msg_queue))
    /\ ~Undecodable(Head(msg_queue))
    /\ Interpret(Head(msg_queue))
    /\ Interpreted
    /\ msg_queue' = Tail(msg_queue)
    /\ sinceFrame' = Some(0)
    /\ createdFrom' = Created(Head(msg_queue))
    /\ UNCHANGED timeVars

\* lines 73-77
OnTimeout ==
    /\ InPass
    /\ msg_queue = <<>>
    /\ OnEmpty

\* lines 82-85: keyboardInterrupt and keyboardInterruptHard come from EClient
\* and either return, and the loop goes on, or raise SystemExit
OnInterrupt ==
    /\ InPass
    /\ \/ UNCHANGED <<loopVars, raised, disconnectCalls>>
       \/ raised' = "SystemExit" /\ Finally
    /\ errors' = <<>>
    /\ NoOutput
    /\ Account
    /\ UNCHANGED <<cfgVars, idVars, tblVars, timeVars, relVars, msg_queue, connCloses,
                   pastVars>>

\* the condition of the while loop is false: on to the finally clause
LoopEnd ==
    /\ running /\ raised = ""
    /\ ~LoopCond
    /\ Finally
    /\ UNCHANGED <<cfgVars, idVars, tblVars, outVars, histVars, timeVars, raised,
                   relVars, msg_queue, connCloses, errors, pastVars>>

\* the gateway closes the socket: conn.isConnected() turns false
ConnectionLost ==
    /\ running /\ connected
    /\ connected' = FALSE
    /\ UNCHANGED <<cfgVars, idVars, tblVars, outVars, histVars, timeVars, running,
                   raised, relVars, msg_queue, exitVars, pastVars>>

Later(t) == IF t + TickStep > MaxElapsed THEN MaxElapsed ELSE t + TickStep

\* the clock moves on
Clock ==
    /\ running
    /\ elapsed + TickStep <= MaxElapsed
    /\ elapsed' = elapsed + TickStep
    /\ sinceFrame' = IF IsNone(sinceFrame) THEN None ELSE Some(Later(sinceFrame.val))
    /\ UNCHANGED <<cfgVars, idVars, tblVars, outVars, histVars, loopVars, raised,
                   relVars, msg_queue, exitVars, createdFrom>>

InitLoop ==
    /\ subRealMD = TRUE
    /\ subHistMD \in BOOLEAN
    /\ securities = Scan({1})
    /\ SessionStart
    /\ ReliableIdle

NextLoop ==
    \/ Enqueue
    \/ OnOversized
    \/ OnBadMessage
    \/ OnFrame
    \/ OnTimeout
    \/ OnInterrupt
    \/ LoopEnd
    \/ ConnectionLost
    \/ Clock

SpecLoop == InitLoop /\ [][NextLoop]_vars

(***************************************************************************)
(* Properties.                                                             *)
(***************************************************************************)
OfKind(reqs, op) == SelectSeq(reqs, LAMBDA r : r.op = op)
Ids(reqs) == [i \in 1..Len(reqs) |-> reqs[i].reqId]
KeySeq(d) == [i \in 1..Len(d) |-> d[i].k]
OneEnabled == Cardinality({i \in 1..Len(securities) : securities[i].SubscriptionEnabled}) = 1
BothEnabled == subRealMD /\ subHistMD
\* the pass in which the loop called verify
ProbePass == elapsed > ProbeSeconds /\ elapsed' = 0
\* the pass in which contractDetails(reqId, cd) found its request and a matching symbol
MatchPass(reqId, cd) ==
    /\ InLoop
    /\ Has(requestedContracts, reqId)
    /\ Matches(Get(requestedContracts, reqId), cd)
    /\ contractDetails(reqId, cd)
    /\ AfterInterpret

\* C1: every id nextReqId returns is greater than every id it returned
\* earlier in the session: the ids of the latest pass rise strictly and all
\* lie above the largest id returned before that pass.
C1_IdsNeverReused ==
    \A i \in 1..Len(allocated) :
        /\ allocated[i] > highWater
        /\ \A j \in 1..(i - 1) : allocated[j] < allocated[i]

\* C2: a contractDetails message whose request id is not a key of
\* requestedContracts changes neither the tables nor the id counters, and no
\* request is written.
C2_UnknownContractDetailsIgnored ==
    [][\/ UNCHANGED <<idVars, tblVars>> /\ sent' = <<>> /\ allocated' = <<>>
       \/ ~\E reqId \in ReqIds, cd \in Replies :
              /\ InLoop
              /\ ~Has(requestedContracts, reqId)
              /\ contractDetails(reqId, cd)
              /\ AfterInterpret]_vars

\* a silent pass while contract lookups are pending and some id is unknown
C2_Witness ==
    /\ requestedContracts # <<>>
    /\ \E reqId \in ReqIds : ~Has(requestedContracts, reqId)
    /\ raised = "" /\ sent = <<>> /\ allocated = <<>> /\ quotes = <<>>

CarriesBar(calls, bar) ==
    /\ Len(calls) = 1
    /\ calls[1].date = bar.date /\ calls[1].open = bar.open
    /\ calls[1].close = bar.close /\ calls[1].high = bar.high
    /\ calls[1].low = bar.low /\ calls[1].volume = bar.volume
    /\ calls[1].barCount = bar.barCount

PendingBarPass(reqId, bar) ==
    /\ InLoop
    /\ Has(requestedHistoricalData, reqId)
    /\ historicalData(reqId, bar)
    /\ AfterInterpret

\* C4 as stated: a historicalData bar for a pending historical request makes
\* exactly one UpdateQuote call with the bar's fields, and afterwards the id
\* is no key of historicalLookup.
C4_BarLeavesLookup ==
    [][\A reqId \in ReqIds, bar \in Bars :
          PendingBarPass(reqId, bar) =>
             (CarriesBar(quotes', bar) /\ ~Has(historicalLookup', reqId))]_vars

\* C4 amended: a historicalData bar for a pending historical request makes
\* exactly one UpdateQuote call with the bar's fields, and afterwards the id
\* is no key of requestedHistoricalData, while historicalLookup is unchanged
\* and still maps the id.
C4_BarLeavesPending ==
    [][\A reqId \in ReqIds, bar \in Bars :
          PendingBarPass(reqId, bar) =>
             (/\ CarriesBar(quotes', bar)
              /\ ~Has(requestedHistoricalData', reqId)
              /\ historicalLookup' = historicalLookup
              /\ Has(historicalLookup', reqId))]_vars

\* a quote was just written and its request is looked up but no longer pending
C4_Witness ==
    /\ Len(quotes) = 1
    /\ \E i \in 1..Len(historicalLookup) :
          /\ historicalLookup[i].v = quotes[1].symbol
          /\ ~Has(requestedHistoricalData, historicalLookup[i].k)

\* C5 as stated: when the wrapped operation is absent on every call, reliable
\* calls it exactly 10 times, the first call included, and returns absent.
C5_TenCallsWhenNeverPresent ==
    (rOut.pc = "returned" /\ rStub.never) =>
        (rOut.calls = 10 /\ IsNone(rOut.result))

\* C5 amended: when the wrapped operation is absent on every call, reliable
\* calls it exactly 11 times, the first call and 10 retries, sleeps 10 times,
\* and returns absent.
C5_ElevenCallsWhenNeverPresent ==
    (rOut.pc = "returned" /\ rStub.never) =>
        (rOut.calls = 11 /\ Len(rOut.sleeps) = 10 /\ IsNone(rOut.result))

C5_Witness == rOut.pc = "returned" /\ rStub.never /\ IsNone(rOut.result)

\* C6: for k < 10, when the wrapped operation is absent on its first k calls
\* and present on call k+1, reliable returns that value after exactly k+1
\* calls, having slept 2^1, ..., 2^k in that order.
C6_ValueAfterKRetries ==
    (rOut.pc = "returned" /\ ~rStub.never /\ rStub.absent < 10) =>
        (/\ rOut.result = Some(rStub.value)
         /\ rOut.calls = rStub.absent + 1
         /\ rOut.sleeps = [i \in 1..rStub.absent |-> 2 ^ i])

C6_Witness ==
    /\ rOut.pc = "returned" /\ ~rStub.never /\ rStub.absent = 9
    /\ rOut.calls = 10 /\ rOut.result = Some(rStub.value)

\* C7: with one enabled instrument in the store and both feeds enabled, the
\* matching contractDetails reply that follows nextValidId(s) writes exactly
\* one market-data request under id s+1 and one historical request under
\* id s+2.
C7_IdsAfterBootstrap ==
    [][\A reqId \in ReqIds, cd \in Replies :
          (BothEnabled /\ OneEnabled /\ Len(allocated) = 1 /\ MatchPass(reqId, cd)) =>
             (/\ Len(sent') = 2
              /\ sent'[1].op = "reqMktData"
              /\ sent'[1].reqId = nextValidOrderId + 1
              /\ sent'[2].op = "reqHistoricalData"
              /\ sent'[2].reqId = nextValidOrderId + 2)]_vars

\* the two requests were just written, right after the pass that drew id s
C7_Witness ==
    /\ BothEnabled /\ OneEnabled
    /\ highWater = nextValidOrderId
    /\ allocated = <<nextValidOrderId + 1, nextValidOrderId + 2>>
    /\ Len(sent) = 2
    /\ sent[1].op = "reqMktData" /\ sent[2].op = "reqHistoricalData"

\* the lookup tables map the ids just drawn to name
LookupsHold(name) ==
    /\ subRealMD =>
          /\ Has(marketDataLookup', allocated'[1])
          /\ Get(marketDataLookup', allocated'[1]) = name
    /\ subHistMD =>
          /\ Has(historicalLookup', allocated'[Len(allocated')])
          /\ Get(historicalLookup', allocated'[Len(allocated')]) = name

\* C8 as stated: after a matching contractDetails reply, marketDataLookup and
\* historicalLookup map the newly allocated ids to the symbol of the requested
\* instrument, whatever else the reply carries.
C8_LookupHoldsRequestedSymbol ==
    [][\A reqId \in ReqIds, cd \in Replies :
          MatchPass(reqId, cd) =>
             LookupsHold(Get(requestedContracts, reqId).symbol)]_vars

\* C8 amended: after a matching contractDetails reply, marketDataLookup and
\* historicalLookup map the newly allocated ids to the localSymbol of the
\* reply's summary.
C8_LookupHoldsLocalSymbol ==
    [][\A reqId \in ReqIds, cd \in Replies :
          MatchPass(reqId, cd) => LookupsHold(cd.summary.localSymbol)]_vars

\* both lookups were just filled with "ABC" for the instrument ABC
C8_Witness ==
    /\ BothEnabled /\ Len(allocated) = 2
    /\ Has(requestedMarketData, allocated[1])
    /\ Has(marketDataLookup, allocated[1])
    /\ Get(marketDataLookup, allocated[1]) = "ABC"
    /\ Has(historicalLookup, allocated[2])
    /\ Get(historicalLookup, allocated[2]) = "ABC"
    /\ \E i \in 1..Len(requestedContracts) : requestedContracts[i].v.symbol = "ABC"

\* C9 as stated: every validated FUT descriptor, that is every one stored in
\* requestedMarketData or requestedHistoricalData, has its trading class equal
\* to its symbol.
C9_ValidatedFutureClass ==
    \A d \in {requestedMarketData, requestedHistoricalData} :
        \A i \in 1..Len(d) :
            d[i].v.secType = "FUT" => d[i].v.tradingClass = d[i].v.symbol

\* C9 amended: every FUT descriptor that start stores in requestedContracts
\* has its trading class equal to its symbol and every other descriptor there
\* has the empty trading class of a new Contract; a validated descriptor in
\* requestedMarketData or requestedHistoricalData carries the symbol, the
\* product type and the trading class of a reply's summary as sent.
C9_RequestedFutureClass ==
    /\ \A i \in 1..Len(requestedContracts) :
          LET c == requestedContracts[i].v
          IN  IF c.secType = "FUT" THEN c.tradingClass = c.symbol
                                   ELSE c.tradingClass = ""
    /\ \A d \in {requestedMarketData, requestedHistoricalData} :
          \A i \in 1..Len(d) :
             \E cd \in Replies :
                /\ d[i].v.symbol = cd.summary.symbol
                /\ d[i].v.secType = cd.summary.secType
                /\ d[i].v.tradingClass = cd.summary.tradingClass

\* a FUT request is registered and a validated FUT descriptor is stored
C9_Witness ==
    /\ \E i \in 1..Len(requestedContracts) :
          /\ requestedContracts[i].v.secType = "FUT"
          /\ requestedContracts[i].v.tradingClass = "ES"
    /\ \E i \in 1..Len(requestedMarketData) :
          requestedMarketData[i].v.secType = "FUT"

\* C10: a historicalData, tickPrice or tickSize reply whose request id is not
\* in the lookup table of its kind changes no state, and the loop keeps
\* running with the transport connected.
C10_UnknownReplyDiscarded ==
    [][\A id \in ReqIds :
          (/\ InLoop
           /\ AfterInterpret
           /\ \/ ~Has(marketDataLookup, id) /\ (tickPrice(id) \/ tickSize(id))
              \/ ~Has(historicalLookup, id) /\ \E bar \in Bars : historicalData(id, bar))
          => (/\ UNCHANGED <<idVars, tblVars>>
              /\ raised' = ""
              /\ running' /\ connected')]_vars

\* C11: however an execution of the loop ends, the transport is disconnected
\* exactly once: runnable never makes a second disconnect call, and once the
\* loop has ended it has made one.
C11_DisconnectedExactlyOnce ==
    /\ disconnectCalls + connCloses <= 1
    /\ ~running => disconnectCalls + connCloses = 1

\* the latest pass of the loop called verify
Probed == sent # <<>> /\ sent[1].op = "reqCurrentTime"

\* C12: verify leaves the pending tables and the id counters unchanged and
\* allocates nothing, and a verify that follows a verify with no reply handled
\* in between writes the same requests again: same kinds, same request ids,
\* same instruments, in the same order.
C12_VerifyTwiceSameRequests ==
    [][ProbePass =>
          (/\ UNCHANGED <<idVars, tblVars>>
           /\ allocated' = <<>>
           /\ Probed => sent' = sent)]_vars

\* verify has just replayed a pending contract lookup and a pending
\* market-data request, which both stay pending
C12_Witness ==
    /\ Probed /\ elapsed = 0
    /\ \E i \in 1..Len(sent) :
          /\ sent[i].op = "reqContractDetails"
          /\ Has(requestedContracts, sent[i].reqId)
    /\ \E i \in 1..Len(sent) :
          /\ sent[i].op = "reqMktData"
          /\ Has(requestedMarketData, sent[i].reqId)

\* the pass that handled a tick for a pending market-data request
PendingTick(id) == InLoop /\ Has(requestedMarketData, id) /\ AfterInterpret

\* C13: a tickPrice for a pending market-data request id removes the id from
\* requestedMarketData and a tickSize for it does not; verify re-requests
\* market data for exactly the ids that are then pending, when streaming is
\* enabled, so for no id a tickPrice has removed.
C13_PriceEndsPendingSizeKeeps ==
    [][/\ \A id \in ReqIds :
            /\ (PendingTick(id) /\ tickPrice(id)) => ~Has(requestedMarketData', id)
            /\ (PendingTick(id) /\ tickSize(id)) => Has(requestedMarketData', id)
       /\ ProbePass =>
             \A id \in ReqIds :
                (\E i \in 1..Len(sent') :
                    sent'[i].op = "reqMktData" /\ sent'[i].reqId = id)
                <=> (subRealMD /\ Has(requestedMarketData, id))]_vars

\* verify has just run after a tickPrice: one id is looked up but no longer
\* pending and is not re-requested, another is still pending and is
C13_Witness ==
    /\ Probed /\ subRealMD
    /\ \E id \in Keys(marketDataLookup) :
          /\ ~Has(requestedMarketData, id)
          /\ \A i \in 1..Len(sent) : sent[i].reqId # id
    /\ \E id \in Keys(requestedMarketData) :
          \E i \in 1..Len(sent) : sent[i].op = "reqMktData" /\ sent[i].reqId = id

\* the pass that handled a message for an id of the lookup table d
LookedUpPass(d, id) == InLoop /\ Has(d, id) /\ AfterInterpret

\* C14: once the terminal reply of a request (historicalDataEnd,
\* tickSnapshotEnd) has been handled, its id is no key of its lookup table,
\* and a lookup table never holds more entries than there are pending
\* requests of its kind.
C14_TerminalReplyClearsLookup ==
    [][/\ \A id \in ReqIds :
            /\ (LookedUpPass(historicalLookup, id) /\ historicalDataEnd(id))
                  => ~Has(historicalLookup', id)
            /\ (LookedUpPass(marketDataLookup, id) /\ tickSnapshotEnd(id))
                  => ~Has(marketDataLookup', id)
       /\ Len(historicalLookup') <= Len(requestedHistoricalData')
       /\ Len(marketDataLookup') <= Len(requestedMarketData')]_vars

\* the loop called the probe in this pass: only the probe sends
\* reqCurrentTime and sets lastStamp
ProbeCalled == elapsed > 0 /\ elapsed' = 0 /\ Probed'

\* C15: the loop calls the probe only in a pass in which the queue read timed
\* out, more than 30 seconds after the previous probe (or the start) and more
\* than 30 seconds after the last frame it received.
C15_ProbeOnlyAfterIdle ==
    [][ProbeCalled =>
          (/\ msg_queue = <<>>
           /\ elapsed > ProbeSeconds
           /\ sinceFrame.some => sinceFrame.val > ProbeSeconds)]_vars

\* the loop took the frame at the head of the queue in this pass
Dequeued == msg_queue # <<>> /\ Len(msg_queue') < Len(msg_queue)

\* C16: the pass that dequeues a frame longer than MAX_MSG_LEN reports it
\* through error, dispatches it to no handler (no table, counter, request or
\* quote changes), disconnects the transport and ends the loop with the
\* frames behind it still in the queue; once the loop has ended no table,
\* counter or queued frame changes any more.
C16_OversizedFrameEndsLoop ==
    [][/\ (Dequeued /\ Head(msg_queue).len > MAX_MSG_LEN) =>
             (/\ Len(errors') = 1
              /\ errors'[1].code = "BAD_LENGTH"
              /\ errors'[1].len = Head(msg_queue).len
              /\ UNCHANGED <<idVars, tblVars>>
              /\ sent' = <<>> /\ allocated' = <<>> /\ quotes' = <<>>
              /\ raised' = ""
              /\ ~connected' /\ ~running'
              /\ disconnectCalls' > disconnectCalls
              /\ msg_queue' = Tail(msg_queue))
       /\ ~running => UNCHANGED <<idVars, tblVars, msg_queue>>]_vars

\* the loop has ended on an oversized frame with a frame left in the queue
\* and a contract lookup pending
C16_Witness ==
    /\ ~running /\ ~connected
    /\ errors # <<>> /\ errors[1].code = "BAD_LENGTH"
    /\ msg_queue # <<>>
    /\ requestedContracts # <<>>

\* the loop took a frame in this pass and handed it to a reply handler
Dispatched ==
    /\ Dequeued
    /\ Head(msg_queue).len <= MAX_MSG_LEN
    /\ Head(msg_queue).kind # "malformed"

\* C17: the pass that receives a malformed frame disconnects the transport
\* and raises nothing, and after it no frame that is still in the queue is
\* dispatched.
C17_MalformedFrameEndsDispatch ==
    [][/\ (Dequeued /\ Head(msg_queue).len <= MAX_MSG_LEN
                    /\ Head(msg_queue).kind = "malformed") =>
             (~connected' /\ raised' = "")
       /\ connCloses > 0 => ~Dispatched]_vars

\* the items of the store that are flagged subscription-enabled, in order
Enabled == SelectSeq(securities, LAMBDA sec : sec.SubscriptionEnabled)

\* the pass in which nextValidId(orderId) fetched the list and ran start; what
\* the handler does with a fetched list does not depend on the retries the
\* fetch took
BootstrapPass(orderId) ==
    /\ InLoop
    /\ nextValidId(orderId, LoopScan)
    /\ AfterInterpret

\* C18: on bootstrap, start draws one id from nextReqId per enabled
\* instrument of the fetched list, in list order, writes exactly one
\* contract-details request under that id for that instrument and registers
\* the id with the request's descriptor in requestedContracts; nothing is
\* drawn, written or registered for an instrument that is not enabled, so
\* the counter advances by the number of enabled instruments.
C18_OneLookupPerEnabledInstrument ==
    [][\A orderId \in Seeds :
          BootstrapPass(orderId) =>
             (/\ allocated' = [i \in 1..Len(Enabled) |-> orderId + i - 1]
              /\ nextValidReqId' = orderId + Len(Enabled)
              /\ Len(sent') = Len(Enabled)
              /\ \A i \in 1..Len(Enabled) :
                    /\ sent'[i].op = "reqContractDetails"
                    /\ sent'[i].reqId = allocated'[i]
                    /\ sent'[i].contract.symbol = Enabled[i].Symbol
                    /\ sent'[i].contract.secType = Enabled[i].ProductType
                    /\ sent'[i].contract.exchange = Enabled[i].Exchange
                    /\ Has(requestedContracts', allocated'[i])
                    /\ Get(requestedContracts', allocated'[i]) = sent'[i].contract
              /\ Keys(requestedContracts') =
                    Keys(requestedContracts) \cup {allocated'[i] : i \in 1..Len(Enabled)})]_vars

\* start has just run over a list with one enabled and one disabled
\* instrument and drawn a single id
C18_Witness ==
    /\ Len(securities) = 2 /\ Len(Enabled) = 1
    /\ raised = ""
    /\ allocated = <<nextValidOrderId>>
    /\ nextValidReqId = nextValidOrderId + 1
    /\ Len(sent) = 1 /\ sent[1].op = "reqContractDetails"
    /\ sent[1].contract.symbol = Enabled[1].Symbol
    /\ Keys(requestedContracts) = {nextValidOrderId}

\* the pass in which nextValidId(orderId) ran start and the fetch stayed
\* absent through every retry
FailedFetchPass(orderId) ==
    /\ Dequeued
    /\ Head(msg_queue).kind = "nextValidId"
    /\ nextValidId(orderId, LostScan)
    /\ Interpreted

\* C19: when getSecurities is still absent after the retries of reliable,
\* the bootstrap that nextValidId starts is aborted: nextReqId returns no id,
\* no contract-details request (no request at all) is written and
\* requestedContracts, like every other table, is unchanged.
C19_AbsentListAbortsBootstrap ==
    [][\A orderId \in Seeds :
          FailedFetchPass(orderId) =>
             (/\ raised' # ""
              /\ allocated' = <<>>
              /\ nextValidReqId' = orderId
              /\ sent' = <<>>
              /\ UNCHANGED tblVars)]_vars

\* a bootstrap has just been aborted while an earlier contract lookup is
\* pending
C19_Witness ==
    /\ raised = "TypeError"
    /\ nextValidOrderId \in Seeds
    /\ nextValidReqId = nextValidOrderId
    /\ allocated = <<>> /\ sent = <<>>
    /\ requestedContracts # <<>>

\* the requests of kind op that contractDetails created from the lookup id
CreatedFrom(id, op) ==
    {i \in 1..Len(createdFrom) : createdFrom[i].from = id /\ createdFrom[i].op = op}

\* C20: from one contract-lookup request id issued at bootstrap at most one
\* market-data request and at most one historical request are ever created,
\* however many matching contractDetails replies arrive for it.
C20_OneStreamPerLookup ==
    \A id \in ReqIds, op \in {"reqMktData", "reqHistoricalData"} :
        Cardinality(CreatedFrom(id, op)) <= 1

====
